---- MODULE Spec2Model ----
(***************************************************************************)
(* BlacklistReputation (src/src/blacklist.rs): a negotiator component that *)
(* rejects blacklisted nodes and blacklists a node whose agreement is not  *)
(* paid within payment_timeout after termination.                          *)
(*                                                                         *)
(* Every callback and the body of the spawned timer task run under the     *)
(* single Mutex<BlacklistState> from their first access to their last, so  *)
(* each is one atomic action.  Drop is three steps (drain under the lock,  *)
(* write the file, drop the runtime) because timer tasks run on the        *)
(* runtime's own workers and interleave with them.                         *)
(***************************************************************************)
EXTENDS Integers, Sequences, FiniteSets, Bags, TLC

\* ---------------------------------------------------------------- bounds
MaxTime == 2          \* the clock runs over 0..MaxTime
MaxTimeout == 1       \* payment_timeout ranges over 0..MaxTimeout
MaxTimers == 2        \* spawned timer tasks alive at once
MaxBlacklist == 2     \* blacklist entries plus tracked agreements

\* ---------------------------------------------------------------- inputs
AgreementIds == {"A1", "A2"}
Nodes == {"n1", "n2"}
SignedDates == {"d1", "d2"}
NoRequestor == "none"
\* negotiate_step inputs: (demand.issuer, offer, score)
Negotiations == {[issuer |-> "n1", offer |-> "o1", score |-> 1],
                 [issuer |-> "n2", offer |-> "o2", score |-> 2]}
Events == {"InvoicePaid", "InvoiceRejected", "InvoiceAccepted"}

VARIABLES
    phase,            \* "none" | "live" | "draining" | "written" | "dropped"
    file,             \* blacklist.yaml in the working directory
    payment_timeout,  \* config.payment_timeout
    blacklist,        \* state.blacklist : Vec<NodeId>
    agreements,       \* state.agreements : HashMap<String, TrackedAgreement>
    timers,           \* bag of spawned timer tasks that have not run yet
    now,              \* Instant::now()
    drained,          \* the local `blacklist` of drop()
    last,             \* the last call: [op, arg, ret]
    lock              \* state : Mutex<BlacklistState>, and who is at it

vars == <<phase, file, payment_timeout, blacklist, agreements, timers, now, drained, last,
          lock>>

\* ---------------------------------------------------------------- helpers
SetOf(s) == {s[i] : i \in 1..Len(s)}

Contains(s, x) == \E i \in 1..Len(s) : s[i] = x

\* variant: the vector is replaced by the new element
Push_Replace(s, x) == <<x>>

\* Vec::push
Push(s, x) == Append(s, x)

EmptyMap == [a \in {} |-> 0]

Tracked(a) == a \in DOMAIN agreements

\* variant: entry(k).or_insert(v), an existing entry is kept
MapInsert_IfAbsent(m, k, v) == [x \in (DOMAIN m) \cup {k} |-> IF x \in DOMAIN m THEN m[x] ELSE v]

\* HashMap::insert
MapInsert(m, k, v) == [x \in (DOMAIN m) \cup {k} |-> IF x = k THEN v ELSE m[x]]

\* variant: the entry is looked up but left in the map
MapRemove_Keep(m, k) == m

MapRemove(m, k) == [x \in (DOMAIN m) \ {k} |-> m[x]]

TrackedAgreement(id, node, signed) ==
    [id |-> id, node |-> node, signed |-> signed, terminated |-> <<>>]

\* ---------------------------------------------------------------- snapshot file
\* fs::read_to_string fails on it
Absent == [exists |-> FALSE, content |-> <<>>]

File(doc) == [exists |-> TRUE, content |-> doc]

NodeIdText == [n \in Nodes |-> IF n = "n1" THEN "0x01" ELSE "0x02"]

YamlLine(ind, text) == [ind |-> ind, text |-> text]

\* variant: only the first entry is written
ToYaml_FirstOnly(list) ==
    IF list = <<>>
    THEN <<YamlLine("", "[]")>>
    ELSE <<YamlLine("-", NodeIdText[list[1]])>>

\* serde_yaml::to_string(&Vec<NodeId>)
ToYaml(list) ==
    IF list = <<>>
    THEN <<YamlLine("", "[]")>>
    ELSE [i \in 1..Len(list) |-> YamlLine("-", NodeIdText[list[i]])]

ParsesAsNode(text) == \E n \in Nodes : NodeIdText[n] = text

ParseNode(text) == CHOOSE n \in Nodes : NodeIdText[n] = text

\* serde_yaml::from_str::<Vec<NodeId>>: Ok iff the document is a sequence of node ids
YamlOk(doc) ==
    \/ doc = <<YamlLine("", "[]")>>
    \/ /\ Len(doc) > 0
       /\ \A i \in 1..Len(doc) : doc[i].ind = "-" /\ ParsesAsNode(doc[i].text)

FromYaml(doc) ==
    IF doc = <<YamlLine("", "[]")>>
    THEN <<>>
    ELSE [i \in 1..Len(doc) |-> ParseNode(doc[i].text)]

Garbage == <<YamlLine("", "payment_timeout: 15s")>>

InitialFiles == {Absent, File(Garbage), File(ToYaml(<<>>)), File(ToYaml(<<"n1">>))}

\* ---------------------------------------------------------------- the mutex
\* holder: "free", "host" (the thread that calls the component) or "task" (a spawned
\* timer task, kept in `task`); call: the callback the host thread is in, if any.
Unlocked == [holder |-> "free", call |-> <<>>, task |-> <<>>]

\* ---------------------------------------------------------------- initial state
\* The working directory before the first construction.
Init ==
    /\ phase = "none"
    /\ file \in InitialFiles
    /\ payment_timeout = 0
    /\ blacklist = <<>>
    /\ agreements = EmptyMap
    /\ timers = EmptyBag
    /\ now = 0
    /\ drained = <<>>
    /\ last = [op |-> "init", arg |-> <<>>, ret |-> "Ok"]
    /\ lock = Unlocked

\* ---------------------------------------------------------------- construction
\* NegotiatorConstructor::new
New(cfg) ==
    /\ phase \in {"none", "dropped"}
    /\ IF ~cfg.valid \/ (file.exists /\ ~YamlOk(file.content))
       THEN /\ last' = [op |-> "new", arg |-> cfg, ret |-> "Err"]
            /\ UNCHANGED <<phase, file, payment_timeout, blacklist, agreements,
                           timers, now, drained>>
       ELSE /\ phase' = "live"
            /\ payment_timeout' = cfg.payment_timeout
            /\ blacklist' = IF file.exists THEN FromYaml(file.content) ELSE <<>>
            /\ agreements' = EmptyMap
            /\ timers' = EmptyBag
            /\ drained' = <<>>
            /\ last' = [op |-> "new", arg |-> cfg, ret |-> "Ok"]
            /\ UNCHANGED <<file, now>>

\* ---------------------------------------------------------------- negotiate_step
\* variant: only the head of the blacklist is compared with the issuer
NegotiateResult_HeadOnly(bl, issuer, offer, score) ==
    IF bl # <<>> /\ bl[1] = issuer
    THEN [kind |-> "Reject", is_final |-> TRUE, proposal |-> "", score |-> 0]
    ELSE [kind |-> "Ready", is_final |-> FALSE, proposal |-> offer, score |-> score]

NegotiateResult(bl, issuer, offer, score) ==
    IF Contains(bl, issuer)
    THEN [kind |-> "Reject", is_final |-> TRUE, proposal |-> "", score |-> 0]
    ELSE [kind |-> "Ready", is_final |-> FALSE, proposal |-> offer, score |-> score]

\* variant: the lookup consumes the blacklist (drain(..).any(..) for contains)
negotiate_step_Drains(issuer, offer, score) ==
    /\ phase = "live"
    /\ blacklist' = <<>>
    /\ last' = [op |-> "negotiate_step", arg |-> <<issuer, offer, score>>,
                ret |-> NegotiateResult(blacklist, issuer, offer, score)]
    /\ UNCHANGED <<phase, file, payment_timeout, agreements, timers, now, drained>>

negotiate_step(issuer, offer, score) ==
    /\ phase = "live"
    /\ last' = [op |-> "negotiate_step", arg |-> <<issuer, offer, score>>,
                ret |-> NegotiateResult(blacklist, issuer, offer, score)]
    /\ UNCHANGED <<phase, file, payment_timeout, blacklist, agreements, timers,
                   now, drained>>

\* ---------------------------------------------------------------- timer tasks
\* A spawned task: the captured agreement_id and deadline (the captured node_id
\* is only logged; the node pushed is the removed record's).  `settled` is
\* history only: how the agreement was resolved by somebody else after this task
\* was armed ("pending" while nobody has).
TimerTask(id, deadline) == [id |-> id, deadline |-> deadline, settled |-> "pending"]

Mark(t, id, how) ==
    IF t.id = id /\ t.settled = "pending" THEN [t EXCEPT !.settled = how] ELSE t

Copies(bag, t) == IF t \in DOMAIN bag THEN bag[t] ELSE 0

\* every pending task armed for `id` learns that the agreement was resolved
MarkTimers(bag, id, how) ==
    [u \in {Mark(t, id, how) : t \in DOMAIN bag} |->
        (IF Mark(u, id, how) = u THEN Copies(bag, u) ELSE 0)
        + (IF u.id = id /\ u.settled = how
           THEN Copies(bag, [u EXCEPT !.settled = "pending"]) ELSE 0)]

\* HashMap::remove: the removed record, if any
Removed(id) == IF Tracked(id) THEN <<agreements[id]>> ELSE <<>>

\* variant: the removed record's node is never pushed
Blacklisted_NoPush(bl, m, id) == bl

\* `if let Some(record) = state.agreements.remove(id) { state.blacklist.push(record.node) }`
Blacklisted(bl, m, id) == IF id \in DOMAIN m THEN Push(bl, m[id].node) ELSE bl

\* variant: the task is spawned whether or not the agreement is tracked
Armed_Always(bag, m, id, deadline) == bag (+) SetToBag({TimerTask(id, deadline)})

\* `if let Some(record) = state.agreements.get_mut(id) { ... self.runtime.spawn(...) }`
Armed(bag, m, id, deadline) ==
    IF id \in DOMAIN m THEN bag (+) SetToBag({TimerTask(id, deadline)}) ELSE bag

\* variant: entry(id).or_insert_with(..) for get_mut(id): an unknown id gets a record
Terminated_Upsert(m, id, at) ==
    IF id \in DOMAIN m
    THEN [m EXCEPT ![id].terminated = <<at>>]
    ELSE MapInsert(m, id, [TrackedAgreement(id, "n1", "d1") EXCEPT !.terminated = <<at>>])

\* `record.terminated = Some(now)` on the record found by get_mut
Terminated(m, id, at) ==
    IF id \in DOMAIN m THEN [m EXCEPT ![id].terminated = <<at>>] ELSE m

\* ---------------------------------------------------------------- on_agreement_approved
\* A new id is accepted while the blacklist has room for every tracked agreement
\* (MaxBlacklist), so that no later push is cut off by the bound.
on_agreement_approved(id, requestor, signed) ==
    /\ phase = "live"
    /\ IF requestor = NoRequestor
       THEN /\ last' = [op |-> "on_agreement_approved", arg |-> id,
                        ret |-> "Err"]
            /\ UNCHANGED <<phase, file, payment_timeout, blacklist, agreements,
                           timers, now, drained>>
       ELSE /\ Tracked(id) \/ Len(blacklist) + Cardinality(DOMAIN agreements) < MaxBlacklist
            /\ agreements' = MapInsert(agreements, id, TrackedAgreement(id, requestor, signed))
            /\ last' = [op |-> "on_agreement_approved", arg |-> id,
                        ret |-> "Ok"]
            /\ UNCHANGED <<phase, file, payment_timeout, blacklist, timers, now, drained>>

\* ---------------------------------------------------------------- on_agreement_terminated
\* A task is armed while its deadline lies within the clock's range (MaxTime) and
\* fewer than MaxTimers tasks are waiting.
on_agreement_terminated(id) ==
    /\ phase = "live"
    /\ Tracked(id) => now + payment_timeout <= MaxTime /\ BagCardinality(timers) < MaxTimers
    /\ agreements' = Terminated(agreements, id, now)
    /\ timers' = Armed(timers, agreements, id, now + payment_timeout)
    /\ last' = [op |-> "on_agreement_terminated", arg |-> id, ret |-> "Ok"]
    /\ UNCHANGED <<phase, file, payment_timeout, blacklist, now, drained>>

\* the body of the task spawned by on_agreement_terminated, after sleep_until
timer_task(t) ==
    /\ phase \in {"live", "draining", "written"}
    /\ BagIn(t, timers)
    /\ now >= t.deadline
    /\ agreements' = MapRemove(agreements, t.id)
    /\ blacklist' = Blacklisted(blacklist, agreements, t.id)
    /\ timers' = IF Tracked(t.id)
                 THEN MarkTimers(timers (-) SetToBag({t}), t.id, "expired")
                 ELSE timers (-) SetToBag({t})
    /\ last' = [op |-> "timer_task", arg |-> t.id, ret |-> Removed(t.id)]
    /\ UNCHANGED <<phase, file, payment_timeout, now, drained>>

\* ---------------------------------------------------------------- on_agreement_event
\* variant: the catch-all arm is missing and every other event falls into Paid
on_agreement_event_OtherPays(id, event) ==
    /\ phase = "live"
    /\ CASE event = "InvoiceRejected" ->
              /\ agreements' = MapRemove(agreements, id)
              /\ blacklist' = Blacklisted(blacklist, agreements, id)
              /\ timers' = IF Tracked(id) THEN MarkTimers(timers, id, "rejected") ELSE timers
         [] OTHER ->
              /\ agreements' = MapRemove(agreements, id)
              /\ blacklist' = blacklist
              /\ timers' = IF Tracked(id) THEN MarkTimers(timers, id, "paid") ELSE timers
    /\ last' = [op |-> "on_agreement_event", arg |-> <<id, event>>, ret |-> "Ok"]
    /\ UNCHANGED <<phase, file, payment_timeout, now, drained>>

on_agreement_event(id, event) ==
    /\ phase = "live"
    /\ CASE event = "InvoicePaid" ->
              /\ agreements' = MapRemove(agreements, id)
              /\ blacklist' = blacklist
              /\ timers' = IF Tracked(id) THEN MarkTimers(timers, id, "paid") ELSE timers
         [] event = "InvoiceRejected" ->
              /\ agreements' = MapRemove(agreements, id)
              /\ blacklist' = Blacklisted(blacklist, agreements, id)
              /\ timers' = IF Tracked(id) THEN MarkTimers(timers, id, "rejected") ELSE timers
         [] OTHER -> UNCHANGED <<agreements, blacklist, timers>>
    /\ last' = [op |-> "on_agreement_event", arg |-> <<id, event>>, ret |-> "Ok"]
    /\ UNCHANGED <<phase, file, payment_timeout, now, drained>>

\* ---------------------------------------------------------------- Drop
\* drop(), first block: the blacklist is drained under the lock
drop_drain ==
    /\ phase = "live"
    /\ phase' = "draining"
    /\ drained' = blacklist
    /\ blacklist' = <<>>
    /\ last' = [op |-> "drop_drain", arg |-> <<>>, ret |-> "Ok"]
    /\ UNCHANGED <<file, payment_timeout, agreements, timers, now>>

\* variant: the list is read from the state again when the file is written
drop_write_Relock(written) ==
    /\ phase = "draining"
    /\ phase' = "written"
    /\ file' = IF written THEN File(ToYaml(drained \o blacklist)) ELSE file
    /\ last' = [op |-> "drop_write", arg |-> <<>>, ret |-> IF written THEN "Ok" ELSE "Err"]
    /\ UNCHANGED <<payment_timeout, blacklist, agreements, timers, now, drained>>

\* drop(), second block: fs::write(...).ok()
drop_write(written) ==
    /\ phase = "draining"
    /\ phase' = "written"
    /\ file' = IF written THEN File(ToYaml(drained)) ELSE file
    /\ last' = [op |-> "drop_write", arg |-> <<>>, ret |-> IF written THEN "Ok" ELSE "Err"]
    /\ UNCHANGED <<payment_timeout, blacklist, agreements, timers, now, drained>>

\* the fields are dropped after drop(): the runtime cancels the sleeping tasks and
\* the state goes away.  `drained` keeps what this teardown collected.
drop_fields ==
    /\ phase = "written"
    /\ phase' = "dropped"
    /\ timers' = EmptyBag
    /\ agreements' = EmptyMap
    /\ blacklist' = <<>>
    /\ payment_timeout' = 0
    /\ last' = [op |-> "drop_fields", arg |-> <<>>, ret |-> "Ok"]
    /\ UNCHANGED <<file, now, drained>>

\* ---------------------------------------------------------------- time
Tick ==
    /\ now < MaxTime
    /\ now' = now + 1
    /\ last' = [op |-> "tick", arg |-> <<>>, ret |-> "Ok"]
    /\ UNCHANGED <<phase, file, payment_timeout, blacklist, agreements, timers, drained>>

\* ---------------------------------------------------------------- specification
TimerTasks(ids) ==
    [id : ids, deadline : 0..MaxTime,
     settled : {"pending", "paid", "rejected", "expired"}]

\* serde_yaml::from_value(config): a payment_timeout, or a value that does not parse
Configs ==
    [valid : {TRUE}, payment_timeout : 0..MaxTimeout]
        \cup {[valid |-> FALSE, payment_timeout |-> 0]}

\* one step of the component with the host's agreements drawn from ids and dates:
\* a callback or a task body from taking the lock to releasing it
Step(ids, dates) ==
    \/ \E cfg \in Configs : New(cfg) /\ UNCHANGED lock
    \/ \E n \in Negotiations : negotiate_step(n.issuer, n.offer, n.score) /\ UNCHANGED lock
    \/ \E id \in ids, n \in Nodes \cup {NoRequestor}, d \in dates :
           on_agreement_approved(id, n, d) /\ UNCHANGED lock
    \/ \E id \in ids : on_agreement_terminated(id) /\ UNCHANGED lock
    \/ \E id \in ids, e \in Events : on_agreement_event(id, e) /\ UNCHANGED lock
    \/ \E t \in TimerTasks(ids) : timer_task(t) /\ UNCHANGED lock
    \/ drop_drain /\ UNCHANGED lock
    \/ \E written \in BOOLEAN : drop_write(written) /\ UNCHANGED lock
    \/ drop_fields /\ UNCHANGED lock
    \/ Tick /\ UNCHANGED lock

Next == Step(AgreementIds, SignedDates)

Spec == Init /\ [][Next]_vars

\* The same component with a host that negotiates one agreement.  Every armed
\* task is eventually polled once its deadline has passed, and time passes.
LiveIds == {"A1"}

LiveDates == {"d1"}

LiveNext == Step(LiveIds, LiveDates)

FairSpec ==
    /\ Init
    /\ [][LiveNext]_vars
    /\ WF_vars(Tick /\ UNCHANGED lock)
    /\ \A id \in LiveIds :
           WF_vars(\E t \in TimerTasks({id}) : timer_task(t) /\ UNCHANGED lock)

\* ---------------------------------------------------------------- the lock, step by step
\* The same callbacks with `self.state.lock().unwrap()` as steps of their own: the
\* host thread enters a callback, takes the mutex, runs the critical section and
\* drops the guard; a task that has slept until its deadline takes the mutex, runs
\* its body and drops the guard.  Nobody else can see the state between lock()
\* returning and the end of the critical section, so the two are one step; a
\* callback that finds the mutex free does not wait.
HostCall(op, id, x, y) == [op |-> op, id |-> id, x |-> x, y |-> y]

HostCalls(ids, nodes, dates) ==
    {HostCall("negotiate_step", n.issuer, n.offer, "-") :
         n \in {m \in Negotiations : m.issuer \in nodes}}
        \cup {HostCall("on_agreement_approved", id, n, d) :
                  id \in ids, n \in nodes \cup {NoRequestor}, d \in dates}
        \cup {HostCall("on_agreement_terminated", id, "-", "-") : id \in ids}
        \cup {HostCall("on_agreement_event", id, e, "-") : id \in ids, e \in Events}
        \cup {HostCall("drop", "-", "-", "-")}

\* `agreement.requestor_id()?` at line 181 returns before the mutex is touched
FailsEarly(c) == c.op = "on_agreement_approved" /\ c.x = NoRequestor

\* the callback started now will find room within the bounds when it holds the lock
Fits(c) ==
    /\ c.op = "on_agreement_approved" =>
           Len(blacklist) + Cardinality(DOMAIN agreements) < MaxBlacklist
    /\ c.op = "on_agreement_terminated" =>
           now + payment_timeout <= MaxTime /\ BagCardinality(timers) < MaxTimers

\* what callback c does between lock() and the end of the guard's scope
Run(c) ==
    CASE c.op = "negotiate_step" ->
             LET n == CHOOSE n \in Negotiations : n.issuer = c.id
             IN  negotiate_step(n.issuer, n.offer, n.score)
      [] c.op = "on_agreement_approved" -> on_agreement_approved(c.id, c.x, c.y)
      [] c.op = "on_agreement_terminated" -> on_agreement_terminated(c.id)
      [] c.op = "on_agreement_event" -> on_agreement_event(c.id, c.x)
      [] c.op = "drop" -> drop_drain

\* the host calls the component and lock() returns at once: the critical section
\* runs; on_agreement_terminated spawns the task here and does not wait for it
Locks(c) ==
    /\ phase = "live"
    /\ lock.call = <<>>
    /\ Fits(c)
    /\ ~FailsEarly(c)
    /\ lock.holder = "free"
    /\ Run(c)
    /\ lock' = [lock EXCEPT !.holder = "host", !.call = <<c>>]

\* the host calls the component while a task holds the mutex: lock() blocks
Blocks(c) ==
    /\ phase = "live"
    /\ lock.call = <<>>
    /\ Fits(c)
    /\ ~FailsEarly(c)
    /\ lock.holder = "task"
    /\ lock' = [lock EXCEPT !.call = <<c>>]
    /\ UNCHANGED <<phase, file, payment_timeout, blacklist, agreements, timers, now,
                   drained, last>>

\* the blocked lock() returns and the critical section runs
Acquire ==
    /\ lock.call # <<>>
    /\ lock.holder = "free"
    /\ Run(lock.call[1])
    /\ lock' = [lock EXCEPT !.holder = "host"]

\* the callback returns an error without reaching lock()
ReturnEarly(c) ==
    /\ lock.call = <<>>
    /\ FailsEarly(c)
    /\ Run(c)
    /\ UNCHANGED lock

\* variant: the callback waits for the tasks it spawned (block_on(handle)) with the
\* guard still alive
Release_JoinsTasks ==
    /\ lock.holder = "host"
    /\ timers = EmptyBag
    /\ lock' = Unlocked
    /\ UNCHANGED <<phase, file, payment_timeout, blacklist, agreements, timers, now,
                   drained, last>>

\* the MutexGuard goes out of scope and the callback returns
Release ==
    /\ lock.holder = "host"
    /\ lock' = Unlocked
    /\ UNCHANGED <<phase, file, payment_timeout, blacklist, agreements, timers, now,
                   drained, last>>

\* `state.lock().unwrap()` in the task, after sleep_until(deadline) has returned
TaskAcquire(t) ==
    /\ phase \in {"live", "draining", "written"}
    /\ BagIn(t, timers)
    /\ now >= t.deadline
    /\ lock.holder = "free"
    /\ lock' = [lock EXCEPT !.holder = "task", !.task = <<t>>]
    /\ UNCHANGED <<phase, file, payment_timeout, blacklist, agreements, timers, now,
                   drained, last>>

\* the task's body up to the end of the async block, where the guard is dropped
TaskBody ==
    /\ lock.holder = "task"
    /\ timer_task(lock.task[1])
    /\ lock' = [lock EXCEPT !.holder = "free", !.task = <<>>]

\* steps of the host thread that do not touch the mutex; the runtime is dropped
\* when no task is inside its body
Unlocked_New(cfg) == lock = Unlocked /\ New(cfg) /\ UNCHANGED lock

Unlocked_drop_write(written) == lock.call = <<>> /\ drop_write(written) /\ UNCHANGED lock

Unlocked_drop_fields == lock = Unlocked /\ drop_fields /\ UNCHANGED lock

\* time passes between the host's callbacks
Unlocked_Tick == lock.call = <<>> /\ Tick /\ UNCHANGED lock

\* a host with one agreement and one requestor, starting in an empty directory
LiveNodes == {"n1"}

LockInit == Init /\ file = Absent

LockNext ==
    \/ \E cfg \in Configs : Unlocked_New(cfg)
    \/ \E c \in HostCalls(LiveIds, LiveNodes, LiveDates) : Locks(c)
    \/ \E c \in HostCalls(LiveIds, LiveNodes, LiveDates) : Blocks(c)
    \/ \E c \in HostCalls(LiveIds, LiveNodes, LiveDates) : ReturnEarly(c)
    \/ Acquire
    \/ Release
    \/ \E t \in TimerTasks(LiveIds) : TaskAcquire(t)
    \/ TaskBody
    \/ \E written \in BOOLEAN : Unlocked_drop_write(written)
    \/ Unlocked_drop_fields
    \/ Unlocked_Tick

\* the tasks armed for `id` with `deadline`
TasksOf(id, deadline) == {t \in TimerTasks({id}) : t.deadline = deadline}

\* Every thread that can take a step eventually takes it; the mutex is eventually
\* given to a task that keeps asking for it (the host may call for ever).
LockSpec ==
    /\ LockInit
    /\ [][LockNext]_vars
    /\ WF_vars(Acquire)
    /\ WF_vars(Release)
    /\ WF_vars(TaskBody)
    /\ \A id \in LiveIds, deadline \in 0..MaxTime :
           SF_vars(\E t \in TasksOf(id, deadline) : TaskAcquire(t))

\* ================================================================ claims

\* ---------------------------------------------------------------- C1
\* C1: negotiate_step called for issuer P returns Reject marked final iff P is in
\* the blacklist at the call; otherwise it returns Ready with the offer and the
\* score passed through.
C1_RejectIffBlacklisted ==
    last.op = "negotiate_step" =>
        LET issuer == last.arg[1]
            offer == last.arg[2]
            score == last.arg[3]
            r == last.ret
        IN  /\ (r.kind = "Reject" /\ r.is_final) <=> issuer \in SetOf(blacklist)
            /\ issuer \notin SetOf(blacklist) =>
                   r.kind = "Ready" /\ r.proposal = offer /\ r.score = score

\* a node that is not the first entry of the blacklist has been rejected
C1_Witness ==
    /\ last.op = "negotiate_step"
    /\ last.ret.kind = "Reject"
    /\ Len(blacklist) = 2
    /\ blacklist[1] # last.arg[1]

\* ---------------------------------------------------------------- C2
\* C2: once a Paid event has removed an agreement, every timer task that was armed
\* for it before the event finds no entry when it runs: it changes neither the
\* table nor the blacklist.
C2_PaidCancelsDeadline ==
    [][\A t \in TimerTasks(AgreementIds) :
          (t.settled = "paid" /\ timer_task(t)) =>
              (agreements' = agreements /\ blacklist' = blacklist)]_vars

\* ---------------------------------------------------------------- C3
Due(a) == phase = "live" /\ Tracked(a) /\ agreements[a].terminated # <<>>

\* a Paid or Rejected event removed the agreement while a task armed for it waited
Settled(a) == \E t \in DOMAIN timers : t.id = a /\ t.settled \in {"paid", "rejected"}

\* a timer task has removed the agreement and its node is in the blacklist
Expired(a) ==
    /\ last.op = "timer_task"
    /\ last.arg = a
    /\ last.ret # <<>>
    /\ ~Tracked(a)
    /\ Contains(blacklist, last.ret[1].node)

\* C3: an agreement that is tracked and terminated is eventually removed by a timer
\* task with its node in the blacklist (so negotiate_step rejects that node), unless
\* a Paid or Rejected event is processed for it first or the component is torn down.
C3_UnpaidIsBlacklisted ==
    \A a \in LiveIds : Due(a) ~> (Expired(a) \/ Settled(a) \/ phase # "live")

\* the deadline passed with no event: the agreement is gone and its node is rejected
C3_Witness ==
    /\ phase = "live"
    /\ Expired("A1")
    /\ last.ret[1].terminated # <<>>
    /\ payment_timeout > 0
    /\ ~Settled("A1")

\* ---------------------------------------------------------------- C4
\* the step is a call of `op` with argument `arg`
Called(op, arg) == last'.op = op /\ last'.arg = arg

ResolveStep(id) ==
    \/ Called("on_agreement_event", <<id, "InvoicePaid">>)
    \/ Called("on_agreement_event", <<id, "InvoiceRejected">>)
    \/ Called("timer_task", id)

C5_OneDeadlinePush ==
    [][\A t \in TimerTasks(AgreementIds) :
          (t.settled = "expired" /\ timer_task(t)) => blacklist' = blacklist]_vars

\* ---------------------------------------------------------------- C6
\* C6: a Rejected event on a tracked agreement puts its node in the blacklist within
\* the call, and every timer task that was armed for the agreement before the event
\* changes neither the table nor the blacklist when it runs.
C6_RejectedIsImmediate ==
    [][/\ \A id \in AgreementIds :
              (Tracked(id) /\ on_agreement_event(id, "InvoiceRejected")) =>
                  Contains(blacklist', agreements[id].node)
       /\ \A t \in TimerTasks(AgreementIds) :
              (t.settled = "rejected" /\ timer_task(t)) =>
                  (agreements' = agreements /\ blacklist' = blacklist)]_vars

\* ---------------------------------------------------------------- C7
\* C7: whenever a step removes an agreement and pushes a node, the removed record
\* had been terminated.
C7_OnlyTerminatedIsBlacklisted ==
    [][\A id \in AgreementIds :
          (Tracked(id) /\ id \notin DOMAIN agreements' /\ Len(blacklist') > Len(blacklist)) =>
              agreements[id].terminated # <<>>]_vars

\* ---------------------------------------------------------------- C8
\* C8: on_agreement_terminated and the Paid and Rejected events for an id that is
\* not in the table return Ok and change neither the blacklist nor the table nor the
\* spawned tasks.
C8_UnknownIsIgnored ==
    [][\A id \in AgreementIds :
          (/\ ~Tracked(id)
           /\ \/ Called("on_agreement_terminated", id)
              \/ Called("on_agreement_event", <<id, "InvoicePaid">>)
              \/ Called("on_agreement_event", <<id, "InvoiceRejected">>)) =>
              /\ blacklist' = blacklist
              /\ agreements' = agreements
              /\ timers' = timers
              /\ last'.ret = "Ok"]_vars

\* a Rejected event for A2 has returned and nobody is blacklisted: A2 was unknown
C8_Witness ==
    /\ phase = "live"
    /\ last.op = "on_agreement_event"
    /\ last.arg = <<"A2", "InvoiceRejected">>
    /\ last.ret = "Ok"
    /\ blacklist = <<>>
    /\ Tracked("A1")

\* ---------------------------------------------------------------- C9
NoDuplicates(list) == \A i, j \in 1..Len(list) : i # j => list[i] # list[j]

\* C9: no node id occurs twice in the blacklist, nor in the snapshot file.
C9_BlacklistIsSet ==
    /\ NoDuplicates(blacklist)
    /\ (file.exists /\ YamlOk(file.content)) => NoDuplicates(FromYaml(file.content))

\* ---------------------------------------------------------------- C10
\* C10: when drop() has written the blacklist it drained, the next construction on
\* that working directory starts with the same set of nodes and an empty table.
C10_SnapshotRoundTrip ==
    [][(phase = "dropped" /\ phase' = "live" /\ file = File(ToYaml(drained))) =>
          (SetOf(blacklist') = SetOf(drained) /\ agreements' = EmptyMap)]_vars

\* a second instance has loaded two different nodes that the first one had saved
C10_Witness ==
    /\ last.op = "new"
    /\ last.ret = "Ok"
    /\ phase = "live"
    /\ SetOf(blacklist) = Nodes
    /\ file = File(ToYaml(blacklist))
    /\ agreements = EmptyMap

\* ---------------------------------------------------------------- C11
\* the snapshot file is missing, or its content is not a list of node ids
Unloadable(f) == ~f.exists \/ ~YamlOk(f.content)

\* C11: a construction with a valid config over a snapshot file that is absent or
\* cannot be decoded returns Ok with an empty blacklist.
C11_LoadNeverFails ==
    (last.op = "new" /\ last.arg.valid /\ Unloadable(file)) =>
        (last.ret = "Ok" /\ phase = "live" /\ blacklist = <<>>)

\* ---------------------------------------------------------------- C12
\* C12: a call of negotiate_step, rejecting or not, leaves the blacklist, the table
\* of tracked agreements and the spawned timer tasks as they were.
C12_NegotiateIsPure ==
    [][last'.op = "negotiate_step" =>
          (blacklist' = blacklist /\ agreements' = agreements /\ timers' = timers)]_vars

\* a node was rejected while an agreement was tracked and a task was waiting
C12_Witness ==
    /\ last.op = "negotiate_step"
    /\ last.ret.kind = "Reject"
    /\ agreements # EmptyMap
    /\ timers # EmptyBag
    /\ blacklist # <<>>

\* ---------------------------------------------------------------- C13
\* C13: on_agreement_event with an event other than InvoicePaid and InvoiceRejected
\* returns Ok and leaves the blacklist, the table and the waiting timer tasks as they
\* were, for a tracked id and for an unknown one, so a task armed for the agreement
\* still finds it.
C13_OtherEventIsIgnored ==
    [][\A id \in AgreementIds, e \in Events \ {"InvoicePaid", "InvoiceRejected"} :
          Called("on_agreement_event", <<id, e>>) =>
              /\ blacklist' = blacklist
              /\ agreements' = agreements
              /\ timers' = timers
              /\ last'.ret = "Ok"]_vars

\* InvoiceAccepted arrived for a terminated agreement whose task is still waiting
C13_Witness ==
    /\ last.op = "on_agreement_event"
    /\ last.arg = <<"A1", "InvoiceAccepted">>
    /\ Tracked("A1")
    /\ agreements["A1"].terminated # <<>>
    /\ \E t \in DOMAIN timers : t.id = "A1" /\ t.settled = "pending"
    /\ ~Tracked("A2")

\* ---------------------------------------------------------------- C14
\* C14: a timer task that runs while the entry tracked under its agreement id has
\* not been terminated (the id was approved again after the task was armed) is a
\* no-op: it neither removes that entry nor pushes its node.
C14_StaleTimerIsSafe ==
    [][\A id \in AgreementIds :
          (Called("timer_task", id) /\ Tracked(id) /\ agreements[id].terminated = <<>>) =>
              (agreements' = agreements /\ blacklist' = blacklist)]_vars

\* ---------------------------------------------------------------- C15
\* C15: whenever a timer task removes a terminated agreement and pushes its node,
\* at least payment_timeout has passed since the termination recorded in the entry
\* (the latest on_agreement_terminated for it).
C15_WindowIsHonoured ==
    [][\A id \in AgreementIds :
          (Called("timer_task", id) /\ Tracked(id) /\ agreements[id].terminated # <<>>) =>
              now >= agreements[id].terminated[1] + payment_timeout]_vars

\* ---------------------------------------------------------------- C16
\* C16: an id enters the table only by on_agreement_approved, so a removed id stays
\* untracked until it is approved again; and the `terminated` field of an entry that
\* stays in the table goes from None to Some only by on_agreement_terminated.
C16_OnlyApprovedInserts ==
    [][\A id \in AgreementIds :
          /\ (~Tracked(id) /\ id \in DOMAIN agreements') =>
                 (Called("on_agreement_approved", id) /\ agreements'[id].terminated = <<>>)
          /\ (/\ Tracked(id)
              /\ id \in DOMAIN agreements'
              /\ agreements[id].terminated = <<>>
              /\ agreements'[id].terminated # <<>>) =>
                 Called("on_agreement_terminated", id)]_vars

\* A1 was paid while its task waited, approved again and terminated again
C16_Witness ==
    /\ last.op = "on_agreement_terminated"
    /\ last.arg = "A1"
    /\ Tracked("A1")
    /\ agreements["A1"].terminated # <<>>
    /\ \E t \in DOMAIN timers : t.id = "A1" /\ t.settled = "paid"
    /\ \E t \in DOMAIN timers : t.id = "A1" /\ t.settled = "pending"

\* ---------------------------------------------------------------- C17
\* C17: after on_agreement_approved(id, node, signed) returned Ok the table holds
\* under id the record with that node, that date and terminated = None, whatever it
\* held under id before; the other entries and the blacklist are unchanged.
C17_ApprovedTracksFresh ==
    [][\A id \in AgreementIds, n \in Nodes, d \in SignedDates :
          (Called("on_agreement_approved", id) /\ on_agreement_approved(id, n, d)) =>
              /\ DOMAIN agreements' = DOMAIN agreements \cup {id}
              /\ agreements'[id] = [id |-> id, node |-> n, signed |-> d, terminated |-> <<>>]
              /\ \A o \in DOMAIN agreements \ {id} : agreements'[o] = agreements[o]
              /\ blacklist' = blacklist
              /\ last'.ret = "Ok"]_vars

\* A1 was approved again for another node while terminated and waiting for its task
C17_Witness ==
    /\ last.op = "on_agreement_approved"
    /\ last.arg = "A1"
    /\ last.ret = "Ok"
    /\ Tracked("A1")
    /\ agreements["A1"].terminated = <<>>
    /\ agreements["A1"].node = "n2"
    /\ \E t \in DOMAIN timers : t.id = "A1" /\ t.settled = "pending"
    /\ Tracked("A2")
    /\ agreements["A2"].terminated # <<>>

\* ---------------------------------------------------------------- C18
\* C18: drop() collects the blacklist as it is when it takes the lock and the file
\* it writes holds exactly that list: tracked agreements add nothing to it, and a
\* timer task that runs after the lock was released changes neither the collected
\* list nor the file.
C18_TeardownSnapshot ==
    [][/\ (phase = "live" /\ phase' = "draining") => drained' = blacklist
       /\ (phase = "draining" /\ phase' = "written" /\ last'.ret = "Ok") =>
              file' = File(ToYaml(drained))
       /\ phase \in {"draining", "written"} => drained' = drained
       /\ (phase \in {"draining", "written"} /\ last'.op = "timer_task") => file' = file
       /\ phase = "written" => file' = file]_vars

\* a task blacklisted n2 after drop() had collected <<n1>>; the file holds <<n1>>
C18_Witness ==
    /\ phase = "written"
    /\ drained = <<"n1">>
    /\ blacklist = <<"n2">>
    /\ file = File(ToYaml(<<"n1">>))
    /\ last.op = "drop_write"
    /\ last.ret = "Ok"

\* ---------------------------------------------------------------- C19
\* C19: between construction and drop() no step takes a node out of the blacklist:
\* the blacklist before a step is a prefix of the blacklist after it, so a node that
\* negotiate_step has rejected is rejected by every later negotiate_step.
C19_BlacklistOnlyGrows ==
    [][(phase = "live" /\ phase' = "live") =>
          /\ Len(blacklist') >= Len(blacklist)
          /\ SubSeq(blacklist', 1, Len(blacklist)) = blacklist
          /\ \A n \in Negotiations :
                 NegotiateResult(blacklist, n.issuer, n.offer, n.score).kind = "Reject" =>
                     NegotiateResult(blacklist', n.issuer, n.offer, n.score).kind = "Reject"]_vars

\* a timer task has added a second node to a blacklist that already held another
C19_Witness ==
    /\ phase = "live"
    /\ last.op = "timer_task"
    /\ last.ret # <<>>
    /\ Len(blacklist) = 2
    /\ blacklist[1] # blacklist[2]
    /\ blacklist[2] = last.ret[1].node

\* ---------------------------------------------------------------- C20
\* a task armed for (id, deadline) has slept long enough and wants the mutex
TaskIsDue(id, deadline) ==
    /\ phase = "live"
    /\ now >= deadline
    /\ \E t \in DOMAIN timers : t.id = id /\ t.deadline = deadline

TaskHoldsLock(id, deadline) ==
    /\ lock.holder = "task"
    /\ lock.task[1].id = id
    /\ lock.task[1].deadline = deadline

\* C20: no callback and no task waits for the mutex for ever.  A callback the host
\* has entered returns; whoever holds the mutex releases it; and a task whose
\* deadline has passed gets the mutex (unless the runtime is dropped first), also
\* when it was spawned with payment_timeout = 0 by a caller still holding the mutex.
C20_NoDeadlock ==
    /\ (lock.call # <<>>) ~> (lock.call = <<>>)
    /\ (lock.holder # "free") ~> (lock.holder = "free")
    /\ \A id \in LiveIds, deadline \in 0..MaxTime :
           TaskIsDue(id, deadline) ~> (TaskHoldsLock(id, deadline) \/ phase = "dropped")

\* on_agreement_terminated has just spawned a task that is due at once and the
\* caller has not released the mutex yet
C20_Witness ==
    /\ lock.holder = "host"
    /\ lock.call[1].op = "on_agreement_terminated"
    /\ payment_timeout = 0
    /\ TaskIsDue("A1", now)
    /\ last.op = "on_agreement_terminated"

====
